---------------------------- MODULE Spec2Model ----------------------------
(***************************************************************************)
(* Model of the task scheduler (task_scheduler/core/scheduler.py).         *)
(*                                                                         *)
(* A Task is a record [name, duration, dependencies].  TaskScheduler keeps *)
(* them in a name-keyed dict, validates the dict, computes the critical    *)
(* path, and run_tasks executes the tasks in waves on a thread pool.       *)
(* Time is discrete: a task's time.sleep(duration) occupies a worker for   *)
(* `duration` ticks of the clock `now`.                                    *)
(***************************************************************************)
EXTENDS Integers, Sequences, FiniteSets, TLC

(***************************************************************************)
(* Bounds of the model.                                                    *)
(***************************************************************************)
\* Task names the inputs draw from; an input list has at most one task per
\* pool entry, so Len(NamePool) bounds the length of an input list.
NamePool == <<"A", "B", "C">>
\* A name that is never the name of a task (a dangling dependency).
Absent == "Z"
\* Durations are 0..MaxDur.
MaxDur == 2
\* A task names at most MaxDeps dependencies.
MaxDeps == 2
\* Threads of the ThreadPoolExecutor (the library default, scaled down).
MaxWorkers == 2

\* get_expected_runtime() is called at most MaxQueries times.
MaxQueries == 2
\* Durations of the inputs that have the six-task graph's shape are
\* 1..ComplexMaxDur.
ComplexMaxDur == 4

MaxTasks == Len(NamePool)
Names == {NamePool[i] : i \in 1..Len(NamePool)}

(***************************************************************************)
(* Generic helpers.                                                        *)
(***************************************************************************)
Max(S) == CHOOSE x \in S : \A y \in S : y <= x

\* The sequences that list every element of S exactly once.
Orderings(S) ==
    {s \in [1..Cardinality(S) -> S] : \A i, j \in DOMAIN s : i # j => s[i] # s[j]}

Range(s) == {s[i] : i \in DOMAIN s}

\* The entries of pool at the indices I, in pool order.
SubList(pool, I) ==
    LET idx == CHOOSE s \in [1..Cardinality(I) -> I] :
                   \A i, j \in DOMAIN s : i < j => s[i] < s[j]
    IN [k \in 1..Cardinality(I) |-> pool[idx[k]]]

\* Dependency lists over a pool of names: at most MaxDeps names, in pool order.
DepLists(pool) ==
    {SubList(pool, I) : I \in {J \in SUBSET (1..Len(pool)) : Cardinality(J) <= MaxDeps}}

(***************************************************************************)
(* Task (core/task.py) and the inputs of the constructor.                  *)
(***************************************************************************)
Task(n, d, deps) == [name |-> n, duration |-> d, dependencies |-> deps]

\* Lists for the validation checks: names may repeat (the i-th task takes one
\* of the first i pool names), dependencies may name the absent task, and the
\* duration, which validation never reads, is one of the two extremes.
ValidateInputs ==
    UNION {
        {l \in [1..n -> {Task(nm, d, deps) : nm \in Names, d \in {0, MaxDur},
                                              deps \in DepLists(NamePool \o <<Absent>>)}] :
            \A i \in 1..n : \E k \in 1..i : l[i].name = NamePool[k]}
        : n \in 0..MaxTasks}

\* Lists for execution: the i-th task is named NamePool[i] (unique names), its
\* dependencies are names of tasks of the list, durations range over
\* 0..MaxDur.  Lists whose dependencies form a cycle are included: the
\* constructor decides.
RunInputs ==
    UNION {
        {l \in [1..n -> {Task(nm, d, deps) : nm \in Names, d \in 0..MaxDur,
                                              deps \in DepLists(SubSeq(NamePool, 1, n))}] :
            \A i \in 1..n : l[i].name = NamePool[i]}
        : n \in 0..MaxTasks}

\* The six-task graph of test_complex_task_graph.
ComplexGraph ==
    << Task("A", 2, <<>>), Task("B", 3, <<>>), Task("C", 1, <<"A", "B">>),
       Task("D", 4, <<"A">>), Task("E", 2, <<"C">>), Task("F", 3, <<"D", "E">>) >>

\* The lists with the names and dependencies of ComplexGraph and any durations.
ComplexInputs ==
    {[i \in DOMAIN ComplexGraph |->
         Task(ComplexGraph[i].name, d[i], ComplexGraph[i].dependencies)] :
     d \in [DOMAIN ComplexGraph -> 1..ComplexMaxDur]}

VARIABLES
    input,               \* the list given to TaskScheduler(tasks)
    pc,                  \* "new", "failed", "constructed", "loop", "gather",
                         \* "returned", "deadlock"
    error,               \* the exception raised, or NoError
    tasks,               \* self.tasks: the dict, as its items in key order
    expected_end_times,  \* self.expected_end_times
    expected_runtime,    \* self.expected_runtime
    now,                 \* time.time()
    start_time,          \* run_tasks: start_time
    completed_tasks,     \* run_tasks: completed_tasks
    actual_durations,    \* run_tasks: actual_durations
    ready_tasks,         \* run_tasks: ready_tasks of the current wave
    task_start,          \* execute_task: start_time of each coroutine of the wave
    queue,               \* executor: work items submitted and not yet taken
    running,             \* executor: task -> ticks its sleep still lasts
    wave_done,           \* task -> measured duration, coroutines that returned
    actual_runtime,      \* run_tasks: actual_runtime
    dispatched,          \* history: how many times each task was dispatched
    waves,               \* history: number of waves dispatched
    wave_max_sum,        \* history: sum over the waves of the longest declared
                         \* duration of the wave
    wave_of,             \* history: task -> number of the wave that dispatched it
    validations,         \* history: how many times _validate_tasks ran
    computations,        \* history: how many times _calculate_critical_path ran
    returns,             \* the values get_expected_runtime() returned, in order
    verbose,             \* cli: the --verbose flag
    stdout,              \* cli: the lines printed to sys.stdout
    stderr,              \* cli: the lines printed to sys.stderr
    exit_code,           \* cli: <<status>> once the process has exited, or NotExited
    text,                \* parser: the argument of TaskParser.parse_text
    parsed,              \* parser: what parse_text returned or raised
    descriptor,          \* task: the arguments of Task(...)
    created,             \* task: what Task(...) returned or raised
    record,              \* parser: the record the text was written from
    other                \* a second run_tasks call on the same scheduler: the
                         \* record of its locals and of its executor

vars == <<input, pc, error, tasks, expected_end_times, expected_runtime, now,
          start_time, completed_tasks, actual_durations, ready_tasks, task_start,
          queue, running, wave_done, actual_runtime, dispatched, waves,
          wave_max_sum, wave_of, validations, computations, returns, verbose,
          stdout, stderr, exit_code, text, parsed, descriptor, created, record, other>>

runVars == <<now, start_time, completed_tasks, actual_durations, ready_tasks,
             task_start, queue, running, wave_done, actual_runtime, dispatched, waves,
             wave_max_sum, wave_of>>

\* The command line's output.
cliVars == <<verbose, stdout, stderr, exit_code>>

\* Arguments and results of the parser and of the Task constructor.
pureVars == <<text, parsed, descriptor, created, record>>

NoError == [kind |-> "none"]

\* The second call has not been made.
NoCall ==
    [pc |-> "idle", start_time |-> 0, completed_tasks |-> {},
     actual_durations |-> [x \in {} |-> 0], ready_tasks |-> <<>>,
     task_start |-> [x \in {} |-> 0], queue |-> <<>>, running |-> [x \in {} |-> 0],
     wave_done |-> [x \in {} |-> 0], actual_runtime |-> 0,
     dispatched |-> [x \in {} |-> 0]]
EmptyMap == [x \in {} |-> 0]

(***************************************************************************)
(* The dict self.tasks.                                                    *)
(***************************************************************************)
Keys(m) == {m[i].name : i \in DOMAIN m}

\* self.tasks[n]
TaskOf(m, n) == m[CHOOSE i \in DOMAIN m : m[i].name = n]

\* d[task.name] = task: a new key goes last, an existing key keeps its place
\* and takes the new value.
DictSet(m, t) ==
    IF t.name \in Keys(m)
    THEN [i \in DOMAIN m |-> IF m[i].name = t.name THEN t ELSE m[i]]
    ELSE Append(m, t)

RECURSIVE DictFrom(_, _)
DictFrom(m, l) == IF l = <<>> THEN m ELSE DictFrom(DictSet(m, Head(l)), Tail(l))

\* {task.name: task for task in tasks}
TaskMap(l) == DictFrom(<<>>, l)

(***************************************************************************)
(* _validate_tasks                                                         *)
(***************************************************************************)
\* len(self.tasks) != len([task.name for task in self.tasks.values()])
DuplicateCheck(m) ==
    LET names == [i \in DOMAIN m |-> m[i].name]
    IN Len(m) # Len(names)

\* The (task, dependency) pairs the two nested loops visit, in order, whose
\* dependency is not a key.
MissingPairs(m) ==
    UNION {{<<i, j>> : j \in {k \in DOMAIN m[i].dependencies :
                                 m[i].dependencies[k] \notin Keys(m)}} : i \in DOMAIN m}

FirstMissing(m) ==
    CHOOSE p \in MissingPairs(m) :
        \A q \in MissingPairs(m) : p[1] < q[1] \/ (p[1] = q[1] /\ p[2] <= q[2])

(***************************************************************************)
(* _check_circular_dependencies: dfs threads visited and temp_visited; a   *)
(* raise stops the traversal.                                              *)
(***************************************************************************)
DfsStart == [visited |-> {}, temp_visited |-> {}, raised |-> "none", at |-> ""]

\* Variant of DfsLeave: the name is never taken out of temp_visited.
DfsLeaveKeepTemp(st, task_name) ==
    [st EXCEPT !.visited = @ \cup {task_name}]

\* temp_visited.remove(task_name); visited.add(task_name)
DfsLeave(st, task_name) ==
    [st EXCEPT !.temp_visited = @ \ {task_name}, !.visited = @ \cup {task_name}]

RECURSIVE Dfs(_, _, _)
RECURSIVE DfsDeps(_, _, _, _)

Dfs(m, task_name, st) ==
    IF st.raised # "none" THEN st
    ELSE IF task_name \in st.temp_visited
    THEN [st EXCEPT !.raised = "cycle", !.at = task_name]
    ELSE IF task_name \in st.visited THEN st
    ELSE IF task_name \notin Keys(m)
    THEN [st EXCEPT !.raised = "KeyError", !.at = task_name]
    ELSE LET s1 == [st EXCEPT !.temp_visited = @ \cup {task_name}]
             s2 == DfsDeps(m, TaskOf(m, task_name).dependencies, 1, s1)
         IN IF s2.raised # "none" THEN s2
            ELSE DfsLeave(s2, task_name)

DfsDeps(m, deps, k, st) ==
    IF k > Len(deps) \/ st.raised # "none" THEN st
    ELSE DfsDeps(m, deps, k + 1, Dfs(m, deps[k], st))

RECURSIVE DfsAll(_, _, _)
DfsAll(m, k, st) ==
    IF k > Len(m) \/ st.raised # "none" THEN st
    ELSE DfsAll(m, k + 1,
                IF m[k].name \notin st.visited THEN Dfs(m, m[k].name, st) ELSE st)

CheckCircular(m) == DfsAll(m, 1, DfsStart)

(***************************************************************************)
(* _calculate_critical_path                                                *)
(***************************************************************************)
MapSet(f, k, v) == [x \in DOMAIN f \cup {k} |-> IF x = k THEN v ELSE f[x]]

\* Variant of DepFinish: the dependency's own duration is left out.
DepFinishNoDuration(m, memo, dep) == memo[dep]

\* calculate_earliest_start(dep) + self.tasks[dep].duration, dep memoised
DepFinish(m, memo, dep) == memo[dep] + TaskOf(m, dep).duration

RECURSIVE CalcEarliestStart(_, _, _)
RECURSIVE CalcDeps(_, _, _, _)

\* calculate_earliest_start(task_name), threading the memo earliest_start_times.
CalcEarliestStart(m, task_name, memo) ==
    IF task_name \in DOMAIN memo THEN memo
    ELSE LET task == TaskOf(m, task_name)
         IN IF task.dependencies = <<>>
            THEN MapSet(memo, task_name, 0)
            ELSE LET memo2 == CalcDeps(m, task.dependencies, 1, memo)
                     es == Max({DepFinish(m, memo2, task.dependencies[k]) :
                                k \in DOMAIN task.dependencies})
                 IN MapSet(memo2, task_name, es)

CalcDeps(m, deps, k, memo) ==
    IF k > Len(deps) THEN memo
    ELSE CalcDeps(m, deps, k + 1, CalcEarliestStart(m, deps[k], memo))

RECURSIVE CalcAll(_, _, _)
CalcAll(m, k, memo) ==
    IF k > Len(m) THEN memo ELSE CalcAll(m, k + 1, CalcEarliestStart(m, m[k].name, memo))

EarliestStartTimes(m) == CalcAll(m, 1, EmptyMap)

ExpectedEndTimes(m) ==
    LET est == EarliestStartTimes(m)
    IN [n \in Keys(m) |-> est[n] + TaskOf(m, n).duration]

RECURSIVE SumOver(_, _)
SumOver(f, S) ==
    IF S = {} THEN 0 ELSE LET x == CHOOSE y \in S : TRUE IN f[x] + SumOver(f, S \ {x})

\* Variant of ExpectedRuntime: a sentinel instead of 0 for no tasks.
ExpectedRuntimeDefault(eet) ==
    IF DOMAIN eet # {} THEN Max({eet[n] : n \in DOMAIN eet}) ELSE -1

\* Variant of ExpectedRuntime: the end times are added up.
ExpectedRuntimeSum(eet) == SumOver(eet, DOMAIN eet)

ExpectedRuntime(eet) ==
    IF DOMAIN eet # {} THEN Max({eet[n] : n \in DOMAIN eet}) ELSE 0

(***************************************************************************)
(* TaskScheduler.__init__                                                  *)
(***************************************************************************)
Construct ==
    /\ pc = "new"
    /\ tasks' = TaskMap(input)
    /\ IF DuplicateCheck(tasks')
       THEN /\ error' = [kind |-> "duplicate"]
            /\ pc' = "failed"
            /\ UNCHANGED <<expected_end_times, expected_runtime>>
       ELSE IF MissingPairs(tasks') # {}
       THEN /\ error' = [kind |-> "missing",
                         task |-> tasks'[FirstMissing(tasks')[1]].name,
                         dep |-> tasks'[FirstMissing(tasks')[1]]
                                     .dependencies[FirstMissing(tasks')[2]]]
            /\ pc' = "failed"
            /\ UNCHANGED <<expected_end_times, expected_runtime>>
       ELSE LET st == CheckCircular(tasks')
            IN IF st.raised # "none"
               THEN \* " -> ".join(temp_visited): a set iterates in an order
                    \* the hash seed decides
                    /\ \E order \in Orderings(st.temp_visited) :
                          error' = [kind |-> st.raised,
                                    path |-> Append(order, st.at)]
                    /\ pc' = "failed"
                    /\ UNCHANGED <<expected_end_times, expected_runtime>>
               ELSE /\ error' = NoError
                    /\ pc' = "constructed"
                    /\ expected_end_times' = ExpectedEndTimes(tasks')
                    /\ expected_runtime' = ExpectedRuntime(expected_end_times')
    /\ validations' = validations + 1
    /\ computations' = IF pc' = "constructed" THEN computations + 1 ELSE computations
    /\ UNCHANGED <<input, runVars, returns, cliVars, pureVars, other>>

InitRest ==
    /\ pc = "new"
    /\ error = NoError
    /\ tasks = <<>>
    /\ expected_end_times = EmptyMap
    /\ expected_runtime = 0
    /\ now = 0
    /\ start_time = 0
    /\ completed_tasks = {}
    /\ actual_durations = EmptyMap
    /\ ready_tasks = <<>>
    /\ task_start = EmptyMap
    /\ queue = <<>>
    /\ running = EmptyMap
    /\ wave_done = EmptyMap
    /\ actual_runtime = 0
    /\ dispatched = EmptyMap
    /\ waves = 0
    /\ wave_max_sum = 0
    /\ wave_of = EmptyMap
    /\ validations = 0
    /\ computations = 0
    /\ returns = <<>>
    /\ other = NoCall

\* exit_code is the sequence of exit statuses: empty while the process runs.
NotExited == <<>>

\* The command line is not in use.
InitNoCli ==
    /\ verbose = FALSE
    /\ stdout = <<>>
    /\ stderr = <<>>
    /\ exit_code = NotExited

\* Neither the parser nor the Task constructor is in use.
InitNoPure ==
    /\ text = <<>>
    /\ parsed = [kind |-> "none"]
    /\ descriptor = [kind |-> "none"]
    /\ created = [kind |-> "none"]
    /\ record = [kind |-> "none"]

InitValidate == input \in ValidateInputs /\ InitRest /\ InitNoCli /\ InitNoPure

NextValidate == Construct

SpecValidate == InitValidate /\ [][NextValidate]_vars

(***************************************************************************)
(* get_ready_tasks                                                         *)
(***************************************************************************)
\* Variant of GetReadyTasks: the dependencies are not looked at.
GetReadyTasksNoDepCheck(m, completed) ==
    LET names == [i \in DOMAIN m |-> m[i].name]
        Ready(n) == n \notin completed
    IN SelectSeq(names, Ready)

\* Variant of GetReadyTasks: only a task without dependencies is ever ready.
GetReadyTasksOnlyRoots(m, completed) ==
    LET names == [i \in DOMAIN m |-> m[i].name]
        Ready(n) == n \notin completed /\ TaskOf(m, n).dependencies = <<>>
    IN SelectSeq(names, Ready)

\* Variant of GetReadyTasks: only the first ready task is returned.
GetReadyTasksFirstOnly(m, completed) ==
    LET names == [i \in DOMAIN m |-> m[i].name]
        Ready(n) == /\ n \notin completed
                    /\ \A k \in DOMAIN TaskOf(m, n).dependencies :
                          TaskOf(m, n).dependencies[k] \in completed
    IN SubSeq(SelectSeq(names, Ready), 1, 1)

GetReadyTasks(m, completed) ==
    LET names == [i \in DOMAIN m |-> m[i].name]
        Ready(n) == /\ n \notin completed
                    /\ \A k \in DOMAIN TaskOf(m, n).dependencies :
                          TaskOf(m, n).dependencies[k] \in completed
    IN SelectSeq(names, Ready)

(***************************************************************************)
(* run_tasks                                                               *)
(***************************************************************************)
\* while len(completed_tasks) < len(self.tasks)
LoopCond(completed, m) == Cardinality(completed) < Len(m)

\* Variant of NewCompletedTasks: the call goes on with the completed set of
\* the other call.
NewCompletedTasksShared(others) == others

\* completed_tasks: Set[str] = set(), whatever the completed set of another
\* call on the scheduler holds
NewCompletedTasks(others) == {}

\* The call: start_time, the empty completed set and duration map.
BeginRun ==
    /\ pc = "constructed"
    /\ pc' = "loop"
    /\ start_time' = now
    /\ completed_tasks' = NewCompletedTasks(other.completed_tasks)
    /\ actual_durations' = EmptyMap
    /\ dispatched' = [n \in Keys(tasks) |-> 0]
    /\ wave_of' = EmptyMap
    /\ UNCHANGED <<input, error, tasks, expected_end_times, expected_runtime, now,
                   ready_tasks, task_start, queue, running, wave_done,
                   actual_runtime, waves, wave_max_sum, validations, computations,
                   returns, cliVars, pureVars, other>>

\* One pass of the loop head: the ready set, the deadlock check, and the
\* gather that starts every coroutine of the wave; each coroutine reads the
\* clock and submits its sleep to the executor.
WaveStart ==
    /\ pc = "loop"
    /\ LoopCond(completed_tasks, tasks)
    /\ LET ready == GetReadyTasks(tasks, completed_tasks)
       IN IF ready = <<>>
          THEN /\ IF Cardinality(completed_tasks) < Len(tasks)
                  THEN /\ pc' = "deadlock"
                       /\ error' = [kind |-> "deadlock"]
                       /\ UNCHANGED actual_runtime
                  ELSE /\ pc' = "returned"
                       /\ actual_runtime' = now - start_time
                       /\ UNCHANGED error
               /\ UNCHANGED <<ready_tasks, task_start, queue, dispatched, waves,
                              wave_max_sum, wave_of>>
          ELSE /\ pc' = "gather"
               /\ ready_tasks' = ready
               /\ task_start' = [n \in Range(ready) |-> now]
               /\ queue' = queue \o ready
               /\ dispatched' = [n \in DOMAIN dispatched |->
                                   IF n \in Range(ready) THEN dispatched[n] + 1
                                   ELSE dispatched[n]]
               /\ waves' = waves + 1
               /\ wave_of' = [n \in DOMAIN wave_of \cup Range(ready) |->
                                IF n \in Range(ready) THEN waves + 1 ELSE wave_of[n]]
               /\ wave_max_sum' = wave_max_sum
                                   + Max({TaskOf(tasks, n).duration : n \in Range(ready)})
               /\ UNCHANGED <<error, actual_runtime>>
    /\ UNCHANGED <<input, tasks, expected_end_times, expected_runtime, now, start_time,
                   completed_tasks, actual_durations, running, wave_done,
                   validations, computations, returns, cliVars, pureVars, other>>

\* An idle worker thread takes the oldest work item and starts its sleep.
Take ==
    /\ pc = "gather"
    /\ queue # <<>>
    /\ Cardinality(DOMAIN running) < MaxWorkers
    /\ running' = MapSet(running, Head(queue), TaskOf(tasks, Head(queue)).duration)
    /\ queue' = Tail(queue)
    /\ UNCHANGED <<input, pc, error, tasks, expected_end_times, expected_runtime, now,
                   start_time, completed_tasks, actual_durations, ready_tasks,
                   task_start, wave_done, actual_runtime, dispatched, waves,
                   wave_max_sum, wave_of, validations, computations, returns,
                   cliVars, pureVars, other>>

\* A call at position p with sleeps r and work queue q has nothing to do but
\* wait: it is not at the loop head, and inside a gather every busy worker
\* of its executor is still asleep and none is free to take a queued item.
Waiting(p, r, q) ==
    /\ p # "loop"
    /\ p = "gather"
          => /\ DOMAIN r # {}
             /\ \A t \in DOMAIN r : r[t] > 0
             /\ ~ (q # <<>> /\ Cardinality(DOMAIN r) < MaxWorkers)

\* The clock advances one unit while the event loop has nothing to do: the
\* sleeps of every call in progress get one unit shorter.
Tick ==
    /\ pc = "gather" \/ other.pc = "gather"
    /\ Waiting(pc, running, queue)
    /\ Waiting(other.pc, other.running, other.queue)
    /\ now' = now + 1
    /\ running' = [t \in DOMAIN running |-> running[t] - 1]
    /\ other' = [other EXCEPT
                    !.running = [t \in DOMAIN other.running |-> other.running[t] - 1]]
    /\ UNCHANGED <<input, pc, error, tasks, expected_end_times, expected_runtime,
                   start_time, completed_tasks, actual_durations, ready_tasks,
                   task_start, queue, wave_done, actual_runtime, dispatched, waves,
                   wave_max_sum, wave_of, validations, computations, returns,
                   cliVars, pureVars>>

\* The sleep of t is over: its worker is free, execute_task reads the clock
\* and returns (task_name, actual_duration).
Finish(t) ==
    /\ pc = "gather"
    /\ t \in DOMAIN running
    /\ running[t] = 0
    /\ running' = [x \in DOMAIN running \ {t} |-> running[x]]
    /\ wave_done' = MapSet(wave_done, t, now - task_start[t])
    /\ UNCHANGED <<input, pc, error, tasks, expected_end_times, expected_runtime, now,
                   start_time, completed_tasks, actual_durations, ready_tasks,
                   task_start, queue, actual_runtime, dispatched, waves, wave_max_sum,
                   wave_of, validations, computations, returns, cliVars, pureVars, other>>

\* Variant of RecordResults: completed_tasks.add is left out.
RecordResultsNone(completed, results) == completed

\* for task_name, duration in results: completed_tasks.add, actual_durations[...]
RecordResults(completed, results) == completed \cup DOMAIN results

\* Variant of RecordDurations: the map is replaced by the wave's results.
RecordDurationsOverwrite(durations, results) == results

\* actual_durations[task_name] = duration, for every result
RecordDurations(durations, results) ==
    [n \in DOMAIN durations \cup DOMAIN results |->
        IF n \in DOMAIN results THEN results[n] ELSE durations[n]]

\* Variant of GatherDone: gather returns with the first result.
GatherDoneAny(done, ready) == DOMAIN done # {}

\* results = await asyncio.gather(*tasks_to_run): every coroutine has returned
GatherDone(done, ready) == DOMAIN done = Range(ready)

\* gather returns once every coroutine of the wave has returned; the results
\* are recorded and the loop goes back to its head.
Join ==
    /\ pc = "gather"
    /\ GatherDone(wave_done, ready_tasks)
    /\ completed_tasks' = RecordResults(completed_tasks, wave_done)
    /\ actual_durations' = RecordDurations(actual_durations, wave_done)
    /\ ready_tasks' = <<>>
    /\ task_start' = EmptyMap
    /\ wave_done' = EmptyMap
    /\ pc' = "loop"
    /\ UNCHANGED <<input, error, tasks, expected_end_times, expected_runtime, now,
                   start_time, queue, running, actual_runtime, dispatched, waves,
                   wave_max_sum, wave_of, validations, computations, returns,
                   cliVars, pureVars, other>>

\* The loop condition is false: end_time, actual_runtime, return.
Return ==
    /\ pc = "loop"
    /\ ~ LoopCond(completed_tasks, tasks)
    /\ pc' = "returned"
    /\ actual_runtime' = now - start_time
    /\ UNCHANGED <<input, error, tasks, expected_end_times, expected_runtime, now,
                   start_time, completed_tasks, actual_durations, ready_tasks,
                   task_start, queue, running, wave_done, dispatched, waves,
                   wave_max_sum, wave_of, validations, computations, returns,
                   cliVars, pureVars, other>>

(***************************************************************************)
(* A second run_tasks call on the same scheduler, made once the first call *)
(* is in progress or has returned.  It has its own locals and its own      *)
(* executor; the scheduler and the clock are shared.                       *)
(***************************************************************************)
firstVars == <<input, pc, error, tasks, expected_end_times, expected_runtime, now,
               start_time, completed_tasks, actual_durations, ready_tasks,
               task_start, queue, running, wave_done, actual_runtime, dispatched,
               waves, wave_max_sum, wave_of, validations, computations, returns,
               cliVars, pureVars>>

OtherBeginRun ==
    /\ pc \in {"loop", "gather", "returned"}
    /\ other.pc = "idle"
    /\ other' = [other EXCEPT
                    !.pc = "loop",
                    !.start_time = now,
                    !.completed_tasks = NewCompletedTasks(completed_tasks),
                    !.actual_durations = EmptyMap,
                    !.dispatched = [n \in Keys(tasks) |-> 0]]
    /\ UNCHANGED firstVars

OtherWaveStart ==
    /\ other.pc = "loop"
    /\ LoopCond(other.completed_tasks, tasks)
    /\ LET ready == GetReadyTasks(tasks, other.completed_tasks)
       IN IF ready = <<>>
          THEN IF Cardinality(other.completed_tasks) < Len(tasks)
               THEN other' = [other EXCEPT !.pc = "deadlock"]
               ELSE other' = [other EXCEPT !.pc = "returned",
                                           !.actual_runtime = now - other.start_time]
          ELSE other' = [other EXCEPT
                           !.pc = "gather",
                           !.ready_tasks = ready,
                           !.task_start = [n \in Range(ready) |-> now],
                           !.queue = other.queue \o ready,
                           !.dispatched = [n \in DOMAIN other.dispatched |->
                                             IF n \in Range(ready)
                                             THEN other.dispatched[n] + 1
                                             ELSE other.dispatched[n]]]
    /\ UNCHANGED firstVars

OtherTake ==
    /\ other.pc = "gather"
    /\ other.queue # <<>>
    /\ Cardinality(DOMAIN other.running) < MaxWorkers
    /\ other' = [other EXCEPT
                    !.running = MapSet(other.running, Head(other.queue),
                                       TaskOf(tasks, Head(other.queue)).duration),
                    !.queue = Tail(other.queue)]
    /\ UNCHANGED firstVars

OtherFinish(t) ==
    /\ other.pc = "gather"
    /\ t \in DOMAIN other.running
    /\ other.running[t] = 0
    /\ other' = [other EXCEPT
                    !.running = [x \in DOMAIN other.running \ {t} |-> other.running[x]],
                    !.wave_done = MapSet(other.wave_done, t, now - other.task_start[t])]
    /\ UNCHANGED firstVars

OtherJoin ==
    /\ other.pc = "gather"
    /\ GatherDone(other.wave_done, other.ready_tasks)
    /\ other' = [other EXCEPT
                    !.completed_tasks = RecordResults(other.completed_tasks,
                                                      other.wave_done),
                    !.actual_durations = RecordDurations(other.actual_durations,
                                                         other.wave_done),
                    !.ready_tasks = <<>>,
                    !.task_start = EmptyMap,
                    !.wave_done = EmptyMap,
                    !.pc = "loop"]
    /\ UNCHANGED firstVars

OtherReturn ==
    /\ other.pc = "loop"
    /\ ~ LoopCond(other.completed_tasks, tasks)
    /\ other' = [other EXCEPT !.pc = "returned",
                              !.actual_runtime = now - other.start_time]
    /\ UNCHANGED firstVars

\* The steps of the second call.
OtherStep ==
    \/ OtherBeginRun
    \/ OtherWaveStart
    \/ OtherTake
    \/ \E t \in Names : OtherFinish(t)
    \/ OtherJoin
    \/ OtherReturn

Init == input \in RunInputs /\ InitRest /\ InitNoCli /\ InitNoPure

(***************************************************************************)
(* get_expected_runtime                                                    *)
(***************************************************************************)
\* Variant of GetExpectedRuntime: the critical path is computed again.
GetExpectedRuntimeRecompute ==
    /\ pc \notin {"new", "failed"}
    /\ Len(returns) < MaxQueries
    /\ expected_end_times' = ExpectedEndTimes(tasks)
    /\ expected_runtime' = ExpectedRuntime(expected_end_times')
    /\ computations' = computations + 1
    /\ returns' = Append(returns, expected_runtime')
    /\ UNCHANGED <<input, pc, error, tasks, runVars, validations, cliVars, pureVars, other>>

\* return self.expected_runtime
GetExpectedRuntime ==
    /\ pc \notin {"new", "failed"}
    /\ Len(returns) < MaxQueries
    /\ returns' = Append(returns, expected_runtime)
    /\ UNCHANGED <<input, pc, error, tasks, expected_end_times, expected_runtime,
                   runVars, validations, computations, cliVars, pureVars, other>>

\* Construction followed by calls of get_expected_runtime.
NextQuery == Construct \/ GetExpectedRuntime

SpecQuery == Init /\ [][NextQuery]_vars

InitComplex == input \in ComplexInputs /\ InitRest /\ InitNoCli /\ InitNoPure

SpecComplex == InitComplex /\ [][NextQuery]_vars

(***************************************************************************)
(* Task.__post_init__                                                      *)
(***************************************************************************)
\* A Python value: its type, and its text, its number or its items.  A float
\* is modelled by an integer, NaNV by the type "nan".
Value(type, s, n, items) == [type |-> type, s |-> s, n |-> n, items |-> items]

StrV(s) == Value("str", s, 0, <<>>)
IntV(n) == Value("int", "", n, <<>>)
FloatV(n) == Value("float", "", n, <<>>)
NaNV == Value("nan", "", 0, <<>>)
BoolV(n) == Value("bool", "", n, <<>>)
NoneV == Value("NoneType", "", 0, <<>>)
ListV(items) == Value("list", "", 0, items)
TupleV(items) == Value("tuple", "", 0, items)

\* The arguments Task(...) is called with.
NameValues == {StrV("A"), StrV(""), NoneV, IntV(1)}

DurationValues ==
    {IntV(-1), IntV(0), IntV(MaxDur), FloatV(-1), FloatV(0), FloatV(MaxDur),
     NaNV, BoolV(1), StrV("1"), NoneV}

EntryValues == {StrV("B"), StrV(""), NoneV, IntV(1)}

DependenciesValues ==
    {ListV(l) : l \in UNION {[1..k -> EntryValues] : k \in 0..MaxDeps}}
        \cup {TupleV(<<StrV("B")>>), StrV("B"), NoneV}

Descriptors ==
    [name : NameValues, duration : DurationValues, dependencies : DependenciesValues]

\* isinstance(v, str)
IsStr(v) == v.type = "str"

\* isinstance(v, (int, float)): bool is a subclass of int, NaNV is a float
IsNumber(v) == v.type \in {"int", "float", "bool", "nan"}

\* v < 0, for a number: every comparison with NaNV is false
LessThanZero(v) == v.type # "nan" /\ v.n < 0

\* not v, for a string
IsEmpty(v) == v.s = ""

\* Variant of DurationError: the sign of the duration is not looked at.
DurationErrorTypeOnly(v) == ~ IsNumber(v)

\* if not isinstance(self.duration, (int, float)) or self.duration < 0
DurationError(v) == ~ IsNumber(v) \/ LessThanZero(v)

\* __post_init__: the first check that fails raises.
PostInit(d) ==
    IF ~ IsStr(d.name) \/ IsEmpty(d.name)
    THEN [kind |-> "ValueError", msg |-> "Task name must be a non-empty string"]
    ELSE IF DurationError(d.duration)
    THEN [kind |-> "ValueError", msg |-> "Task duration must be a non-negative number"]
    ELSE IF d.dependencies.type # "list"
    THEN [kind |-> "ValueError", msg |-> "Dependencies must be a list"]
    ELSE IF \E i \in DOMAIN d.dependencies.items :
                ~ IsStr(d.dependencies.items[i]) \/ IsEmpty(d.dependencies.items[i])
    THEN [kind |-> "ValueError", msg |-> "Each dependency must be a non-empty string"]
    ELSE [kind |-> "ok", msg |-> ""]

\* Task(name, duration, dependencies)
CreateTask ==
    /\ created.kind = "none"
    /\ descriptor \in Descriptors
    /\ created' = PostInit(descriptor)
    /\ UNCHANGED <<input, pc, error, tasks, expected_end_times, expected_runtime,
                   runVars, validations, computations, returns, cliVars, text,
                   parsed, descriptor, record, other>>

InitTask ==
    /\ input = <<>>
    /\ InitRest /\ InitNoCli
    /\ text = <<>>
    /\ parsed = [kind |-> "none"]
    /\ descriptor \in Descriptors
    /\ created = [kind |-> "none"]
    /\ record = [kind |-> "none"]

SpecTask == InitTask /\ [][CreateTask]_vars

(***************************************************************************)
(* TaskParser.parse_text.  A text is a sequence of characters.             *)
(***************************************************************************)
\* The records a text is written from: a name, the duration's characters,
\* dependency names, the notation of the dependencies, the separator, and a
\* blank line before the record.
Records ==
    [name : {"A"},
     duration : {<<"5">>, <<"1", "0">>, <<"x">>},
     dependencies : UNION {[1..k -> {"B", "C"}] : k \in 0..MaxDeps},
     notation : {"bracketed", "bare", "nameonly"},
     space : BOOLEAN,
     blank : BOOLEAN]

RECURSIVE JoinWith(_, _)
JoinWith(names, sep) ==
    IF names = <<>> THEN <<>>
    ELSE IF Len(names) = 1 THEN <<names[1]>>
    ELSE <<names[1]>> \o sep \o JoinWith(Tail(names), sep)

\* The line of r: "A, 5, [B, C]" bracketed, "A, 5, B, C" bare.
FormatRecord(r) ==
    LET sep == IF r.space THEN <<",", " ">> ELSE <<",">>
        deps == JoinWith(r.dependencies, sep)
    IN (IF r.blank THEN <<"\n">> ELSE <<>>)
       \o <<r.name>>
       \o (IF r.notation = "nameonly" THEN <<>>
           ELSE sep \o r.duration
                \o (IF r.notation = "bracketed" THEN sep \o <<"[">> \o deps \o <<"]">>
                    ELSE IF deps = <<>> THEN <<>> ELSE sep \o deps))
       \o <<"\n">>

\* str.split(sep)
RECURSIVE Split(_, _)
Split(s, sep) ==
    IF s = <<>> THEN << <<>> >>
    ELSE LET rest == Split(Tail(s), sep)
         IN IF Head(s) = sep THEN << <<>> >> \o rest
            ELSE << <<Head(s)>> \o Head(rest) >> \o Tail(rest)

\* csv.reader(io.StringIO(text)): one row per line, cells split at commas; an
\* empty line is the row [].
CsvReader(t) ==
    LET all == Split(t, "\n")
        lines == IF all[Len(all)] = <<>> THEN SubSeq(all, 1, Len(all) - 1) ELSE all
    IN [i \in DOMAIN lines |-> IF lines[i] = <<>> THEN <<>> ELSE Split(lines[i], ",")]

RECURSIVE StripLeft(_)
StripLeft(s) ==
    IF s # <<>> /\ Head(s) = " " THEN StripLeft(Tail(s)) ELSE s

RECURSIVE StripRight(_)
StripRight(s) ==
    IF s # <<>> /\ s[Len(s)] = " " THEN StripRight(SubSeq(s, 1, Len(s) - 1)) ELSE s

\* str.strip()
Strip(s) == StripRight(StripLeft(s))

\* The string of a sequence of characters.
RECURSIVE Concat(_)
Concat(s) == IF s = <<>> THEN "" ELSE Head(s) \o Concat(Tail(s))

Digits == <<"0", "1", "2", "3", "4", "5", "6", "7", "8", "9">>

\* float(s) succeeds: of the texts written here, those made of digits only
FloatOk(s) == s # <<>> /\ \A i \in DOMAIN s : s[i] \in Range(Digits)

\* float(s)
RECURSIVE ToFloat(_)
ToFloat(s) ==
    IF s = <<>> THEN 0
    ELSE ToFloat(SubSeq(s, 1, Len(s) - 1)) * 10
             + (CHOOSE n \in 0..9 : Digits[n + 1] = s[Len(s)])

\* [dep.strip() for dep in deps_str.split(',')]
StripEach(cells) == [i \in DOMAIN cells |-> Concat(Strip(cells[i]))]

\* The dependencies of a row: only row[2] is read.
ParseDependencies(row) ==
    IF Len(row) >= 3 /\ Strip(row[3]) # <<>>
    THEN LET deps_str == Strip(row[3])
         IN IF Head(deps_str) = "[" /\ deps_str[Len(deps_str)] = "]"
            THEN LET inner == SubSeq(deps_str, 2, Len(deps_str) - 1)
                 IN IF inner # <<>> THEN StripEach(Split(inner, ",")) ELSE <<>>
            ELSE StripEach(Split(deps_str, ","))
    ELSE <<>>

NoTask == Task("", 0, <<>>)

\* The body of the loop for row number i.
ParseRow(row, i) ==
    IF row = <<>> \/ \A k \in DOMAIN row : Strip(row[k]) = <<>>
    THEN [kind |-> "skip", line |-> i, msg |-> "", task |-> NoTask]
    ELSE IF Len(row) < 2
    THEN [kind |-> "ValueError", line |-> i,
          msg |-> "Each task must have at least a name and duration", task |-> NoTask]
    ELSE IF ~ FloatOk(Strip(row[2]))
    THEN [kind |-> "ValueError", line |-> i,
          msg |-> "Duration must be a number", task |-> NoTask]
    ELSE LET name == Concat(Strip(row[1]))
             duration == ToFloat(Strip(row[2]))
             dependencies == ParseDependencies(row)
             made == PostInit([name |-> StrV(name), duration |-> FloatV(duration),
                               dependencies |->
                                   ListV([k \in DOMAIN dependencies |->
                                             StrV(dependencies[k])])])
         IN IF made.kind = "ValueError"
            THEN [kind |-> "ValueError", line |-> 0, msg |-> made.msg, task |-> NoTask]
            ELSE [kind |-> "ok", line |-> i, msg |-> "",
                  task |-> Task(name, duration, dependencies)]

RECURSIVE ParseRows(_, _, _)
ParseRows(rows, i, acc) ==
    IF i > Len(rows) THEN [kind |-> "ok", tasks |-> acc, line |-> 0, msg |-> ""]
    ELSE LET r == ParseRow(rows[i], i)
         IN IF r.kind = "skip" THEN ParseRows(rows, i + 1, acc)
            ELSE IF r.kind = "ValueError"
            THEN [kind |-> "ValueError", tasks |-> <<>>, line |-> r.line, msg |-> r.msg]
            ELSE ParseRows(rows, i + 1, Append(acc, r.task))

\* TaskParser.parse_text(text)
ParseText ==
    /\ parsed.kind = "none"
    /\ record \in Records
    /\ parsed' = ParseRows(CsvReader(text), 1, <<>>)
    /\ UNCHANGED <<input, pc, error, tasks, expected_end_times, expected_runtime,
                   runVars, validations, computations, returns, cliVars, text,
                   descriptor, created, record, other>>

InitParser ==
    /\ input = <<>>
    /\ InitRest /\ InitNoCli
    /\ record \in Records
    /\ text = FormatRecord(record)
    /\ parsed = [kind |-> "none"]
    /\ descriptor = [kind |-> "none"]
    /\ created = [kind |-> "none"]

SpecParser == InitParser /\ [][ParseText]_vars

\* The steps of a run in progress: the event loop and the pool's threads.
RunStep ==
    \/ WaveStart
    \/ Take
    \/ Tick
    \/ \E t \in Names : Finish(t)
    \/ Join
    \/ Return

Next ==
    \/ Construct
    \/ BeginRun
    \/ RunStep

Spec == Init /\ [][Next]_vars

\* Two run_tasks calls on one scheduler, one after the other or interleaved.
NextTwoCalls == Next \/ OtherStep

SpecTwoCalls == Init /\ [][NextTwoCalls]_vars

(***************************************************************************)
(* cli.run_tasks                                                           *)
(***************************************************************************)
\* A printed line: its text and the number formatted into it.
Line(t, v) == [text |-> t, value |-> v]

\* The keys of actual_durations in insertion order: wave by wave, and within
\* a wave in the order of the task map.
RECURSIVE DurationItems(_)
DurationItems(w) ==
    IF w = 0 THEN <<>>
    ELSE DurationItems(w - 1)
         \o SelectSeq([i \in DOMAIN tasks |-> tasks[i].name],
                      LAMBDA n : n \in DOMAIN wave_of /\ wave_of[n] = w)

\* scheduler = TaskScheduler(tasks) has returned: get_expected_runtime and
\* the two lines printed before the run.
CliStart ==
    /\ pc = "constructed"
    /\ stdout = <<>>
    /\ exit_code = NotExited
    /\ returns' = Append(returns, expected_runtime)
    /\ stdout' = <<Line("Starting task execution...", 0),
                   Line("Expected runtime", expected_runtime)>>
    /\ UNCHANGED <<input, pc, error, tasks, expected_end_times, expected_runtime,
                   runVars, validations, computations, verbose, stderr, exit_code,
                   pureVars, other>>

\* await scheduler.run_tasks(): the call
CliAwait ==
    /\ stdout # <<>>
    /\ BeginRun

\* run_tasks has returned: the report, or the exception of the division by
\* an expected runtime of 0, caught by except Exception.
CliReport ==
    /\ pc = "returned"
    /\ exit_code = NotExited
    /\ LET runtime_diff == actual_runtime - expected_runtime
           completed == <<Line("", 0), Line("Task execution completed.", 0),
                          Line("Actual runtime", actual_runtime)>>
           names == DurationItems(waves)
           details == <<Line("", 0), Line("Task execution details:", 0)>>
                      \o [i \in DOMAIN names |->
                             Line(names[i], actual_durations[names[i]]
                                                - TaskOf(tasks, names[i]).duration)]
       IN IF expected_runtime = 0
          THEN /\ stdout' = stdout \o completed
               /\ stderr' = Append(stderr, Line("Error running tasks: division by zero", 0))
               /\ exit_code' = <<1>>
          ELSE /\ stdout' = stdout \o completed
                               \o <<Line("Difference", runtime_diff)>>
                               \o (IF verbose THEN details ELSE <<>>)
               /\ stderr' = stderr
               /\ exit_code' = <<0>>
    /\ UNCHANGED <<input, pc, error, tasks, expected_end_times, expected_runtime,
                   runVars, validations, computations, returns, verbose, pureVars, other>>

\* TaskScheduler(tasks) or run_tasks raised: except Exception prints the
\* message to stderr and exits with status 1.
CliError ==
    /\ pc \in {"failed", "deadlock"}
    /\ exit_code = NotExited
    /\ stderr' = Append(stderr, Line("Error running tasks: " \o error.kind, 0))
    /\ exit_code' = <<1>>
    /\ UNCHANGED <<input, pc, error, tasks, expected_end_times, expected_runtime,
                   runVars, validations, computations, returns, verbose, stdout,
                   pureVars, other>>

InitCli ==
    /\ input \in RunInputs
    /\ InitRest /\ InitNoPure
    /\ verbose \in BOOLEAN
    /\ stdout = <<>>
    /\ stderr = <<>>
    /\ exit_code = NotExited

NextCli ==
    \/ Construct
    \/ CliStart
    \/ CliAwait
    \/ RunStep
    \/ CliReport
    \/ CliError

SpecCli == InitCli /\ [][NextCli]_vars

\* The event loop and the pool's threads keep running: an enabled step of a
\* run in progress is eventually taken.
FairSpec == Spec /\ WF_vars(RunStep)

(***************************************************************************)
(* Properties of an input list, stated on the list itself.                 *)
(***************************************************************************)
ListNames(l) == {l[i].name : i \in DOMAIN l}

HasDuplicateNames(l) == \E i, j \in DOMAIN l : i # j /\ l[i].name = l[j].name

\* <<task, dependency>>: task depends on dependency.
DepRel(l) == UNION {{<<l[i].name, d>> : d \in Range(l[i].dependencies)} : i \in DOMAIN l}

DanglingPairs(l) == {e \in DepRel(l) : e[2] \notin ListNames(l)}

RECURSIVE Closure(_)
Closure(R) ==
    LET R2 == R \cup {<<ef[1][1], ef[2][2]>> : ef \in {x \in R \X R : x[1][2] = x[2][1]}}
    IN IF R2 = R THEN R ELSE Closure(R2)

HasCycle(l) == \E e \in Closure(DepRel(l)) : e[1] = e[2]

Deps(m, n) == Range(TaskOf(m, n).dependencies)

\* The dependency paths of m: distinct names, each depending on the next.
Paths(m) ==
    UNION {{p \in Orderings(S) :
               \A i \in 1..(Len(p) - 1) : p[i + 1] \in Deps(m, p[i])}
           : S \in SUBSET Keys(m) \ {{}}}

RECURSIVE PathDuration(_, _)
PathDuration(m, p) ==
    IF p = <<>> THEN 0 ELSE TaskOf(m, Head(p)).duration + PathDuration(m, Tail(p))

Constructed == pc \in {"constructed", "loop", "gather", "returned", "deadlock"}

(***************************************************************************)
(* C1: whenever two tasks of the input list share a name, construction     *)
(* fails with the duplicate-name error.                                    *)
(***************************************************************************)
C1_DuplicateNamesRejected ==
    (pc # "new" /\ HasDuplicateNames(input))
        => (pc = "failed" /\ error.kind = "duplicate")

(***************************************************************************)
(* C2: for a list with unique names and no dangling dependency,            *)
(* construction fails with the circular-dependency error exactly when the  *)
(* dependency relation has a directed cycle (a self dependency included),  *)
(* and succeeds otherwise.                                                 *)
(***************************************************************************)
C2_CycleErrorIffCycle ==
    (pc # "new" /\ ~ HasDuplicateNames(input) /\ DanglingPairs(input) = {})
        => /\ HasCycle(input) <=> (pc = "failed" /\ error.kind = "cycle")
           /\ ~ HasCycle(input) => (pc = "constructed" /\ error = NoError)

\* A three-task list, unique names, whose cycle is not a self dependency, rejected.
C2_Witness ==
    /\ pc = "failed" /\ error.kind = "cycle"
    /\ Len(input) = 3 /\ ~ HasDuplicateNames(input) /\ DanglingPairs(input) = {}
    /\ \A e \in DepRel(input) : e[1] # e[2]

(***************************************************************************)
(* C3: whenever some task of the input list names a dependency that is not *)
(* the name of a task of the list, construction fails with the             *)
(* missing-dependency error, and the error names such a task and the       *)
(* absent name.                                                            *)
(***************************************************************************)
C3_MissingDependencyRejected ==
    (pc # "new" /\ DanglingPairs(input) # {})
        => /\ pc = "failed"
           /\ error.kind = "missing"
           /\ <<error.task, error.dep>> \in DanglingPairs(input)

InFlight == Range(ready_tasks) \cup Range(queue) \cup DOMAIN running \cup DOMAIN wave_done

C5_DependenciesFirst ==
    pc \in {"loop", "gather", "returned"}
        => /\ \A n \in InFlight : Deps(tasks, n) \subseteq completed_tasks
           /\ \A n \in completed_tasks : Deps(tasks, n) \subseteq completed_tasks

\* A task that has dependencies is asleep on a worker.
C5_Witness ==
    /\ pc = "gather"
    /\ \E n \in DOMAIN running : Deps(tasks, n) # {}

(***************************************************************************)
(* C6: no task is dispatched twice, in one wave or in two, and when        *)
(* run_tasks has returned every task has been dispatched exactly once and  *)
(* the keys of the duration map are exactly the task names.                *)
(***************************************************************************)
C6_DispatchedOnce ==
    /\ \A n \in DOMAIN dispatched : dispatched[n] <= 1
    /\ \A i, j \in DOMAIN ready_tasks : i # j => ready_tasks[i] # ready_tasks[j]
    /\ pc = "returned"
          => /\ DOMAIN dispatched = Keys(tasks)
             /\ \A n \in Keys(tasks) : dispatched[n] = 1
             /\ DOMAIN actual_durations = Keys(tasks)

\* A run of three tasks in more than one wave has returned.
C6_Witness ==
    pc = "returned" /\ Len(tasks) = 3 /\ waves >= 2

(***************************************************************************)
(* C7: run_tasks on a constructed scheduler never raises the deadlock      *)
(* error: at the loop head, while some task is not completed, the ready    *)
(* set is not empty.                                                       *)
(***************************************************************************)
C7_NoDeadlock ==
    /\ pc # "deadlock"
    /\ error.kind # "deadlock"
    /\ (pc = "loop" /\ completed_tasks # Keys(tasks))
          => GetReadyTasks(tasks, completed_tasks) # <<>>

\* The loop head in the middle of a run: some tasks completed, some not.
C7_Witness ==
    /\ pc = "loop"
    /\ completed_tasks # {}
    /\ completed_tasks # Keys(tasks)

(***************************************************************************)
(* C8: under fair scheduling a started run_tasks eventually returns with   *)
(* every task completed; every pass of the loop strictly enlarges the      *)
(* completed set, and there are never more waves than tasks.               *)
(***************************************************************************)
C8_Terminates ==
    /\ [](waves <= Len(tasks))
    /\ [][(pc = "gather" /\ pc' = "loop")
            => (completed_tasks \subseteq completed_tasks'
                /\ completed_tasks # completed_tasks')]_vars
    /\ (pc = "loop") ~> (pc = "returned" /\ completed_tasks = Keys(tasks))

\* A run that took as many waves as there are tasks has returned.
C8_Witness ==
    pc = "returned" /\ Len(tasks) = 3 /\ waves = 3

(***************************************************************************)
(* C9: for the empty task list construction succeeds with expected runtime *)
(* 0, and run_tasks returns at once: no wave, no dispatch, no deadlock     *)
(* error, an empty duration map.                                           *)
(***************************************************************************)
C9_EmptyList ==
    input = <<>>
        => /\ pc \in {"new", "constructed", "loop", "returned"}
           /\ error = NoError
           /\ pc # "new" => (tasks = <<>> /\ expected_runtime = 0)
           /\ waves = 0 /\ queue = <<>> /\ running = EmptyMap /\ now = 0
           /\ pc = "returned" => (actual_durations = EmptyMap /\ actual_runtime = 0)

C9_Witness ==
    input = <<>> /\ pc = "returned"

(***************************************************************************)
(* C10: when run_tasks has returned, its actual runtime is at least the    *)
(* sum over the waves of the longest declared duration of the wave, which  *)
(* is at least the expected runtime.                                       *)
(***************************************************************************)
C10_ActualAtLeastExpected ==
    pc = "returned"
        => /\ actual_runtime >= wave_max_sum
           /\ wave_max_sum >= expected_runtime

\* The barrier costs time: a returned run whose waves add up to more than the
\* critical path.
C10_Witness ==
    pc = "returned" /\ wave_max_sum > expected_runtime /\ expected_runtime > 0

C13_PureRead ==
    /\ [][returns' # returns
            => /\ returns' = Append(returns, expected_runtime)
               /\ UNCHANGED <<tasks, expected_end_times, expected_runtime,
                              validations, computations, pc, error>>]_vars
    /\ [](\A i, j \in DOMAIN returns : returns[i] = returns[j])
    /\ [](pc = "constructed" => (validations = 1 /\ computations = 1))

\* Two calls have returned, on a scheduler whose expected runtime is not 0.
C13_Witness ==
    Len(returns) >= 2 /\ expected_runtime > 0 /\ validations = 1 /\ computations = 1

(***************************************************************************)
(* C14: when construction of a list with unique names fails because of a   *)
(* cycle, the reported path is the cycle itself: each name of the path     *)
(* depends on the next one and the first and last names are equal.         *)
(***************************************************************************)
C14_CyclePathIsCycle ==
    (pc = "failed" /\ error.kind = "cycle" /\ ~ HasDuplicateNames(input))
        => /\ Len(error.path) >= 2
           /\ error.path[1] = error.path[Len(error.path)]
           /\ \A i \in 1..(Len(error.path) - 1) :
                  <<error.path[i], error.path[i + 1]>> \in DepRel(input)

(***************************************************************************)
(* C20: dangling dependencies are checked before cycle detection: a list   *)
(* with both a dangling dependency and a cycle is rejected with the        *)
(* missing-dependency error, the cycle search never looks up an absent     *)
(* name, and the critical path is only computed on a task map that is      *)
(* closed under dependencies and acyclic.                                  *)
(***************************************************************************)
C20_MissingBeforeCycle ==
    pc # "new"
        => /\ (DanglingPairs(input) # {} /\ HasCycle(input))
                 => (pc = "failed" /\ error.kind = "missing")
           /\ error.kind # "KeyError"
           /\ error.kind = "cycle" => MissingPairs(tasks) = {}
           /\ pc = "constructed"
                 => (DanglingPairs(tasks) = {} /\ ~ HasCycle(tasks))

(***************************************************************************)
(* C17: a wave boundary is a barrier.  Every task that is queued, running  *)
(* or finished but not yet joined belongs to the current wave, every task  *)
(* of an earlier wave is in the completed set, and the completed set and   *)
(* the duration map change only in a step taken when no task of the wave   *)
(* is queued or running and all of them have returned; that step adds      *)
(* exactly the tasks of the wave.                                          *)
(***************************************************************************)
C17_WaveBarrier ==
    /\ [](pc \in {"loop", "gather", "returned"}
            => /\ \A t \in Range(queue) \cup DOMAIN running \cup DOMAIN wave_done :
                      t \in DOMAIN wave_of /\ wave_of[t] = waves
               /\ \A t \in DOMAIN wave_of :
                      (wave_of[t] < waves \/ pc # "gather") => t \in completed_tasks
               /\ \A t \in completed_tasks : t \in DOMAIN actual_durations)
    /\ [][(completed_tasks' # completed_tasks \/ actual_durations' # actual_durations)
            => /\ queue = <<>> /\ running = EmptyMap
               /\ DOMAIN wave_done = Range(ready_tasks)
               /\ completed_tasks' = completed_tasks \cup Range(ready_tasks)
               /\ DOMAIN actual_durations' = completed_tasks']_vars

\* In the second wave a task runs while another one is still queued, after a
\* first wave of two tasks.
C17_Witness ==
    /\ pc = "gather" /\ waves = 2
    /\ Cardinality(completed_tasks) = 2
    /\ DOMAIN running # {}

(***************************************************************************)
(* C18: within a wave every ready task gets a worker immediately: no       *)
(* dispatched task is queued while all workers are busy, each measured     *)
(* duration is the task's own duration, and the run lasts the sum of the   *)
(* waves' longest durations.                                               *)
(***************************************************************************)
C18_WorkerForEveryReadyTask ==
    /\ pc = "gather"
          => /\ queue # <<>> => Cardinality(DOMAIN running) < MaxWorkers
             /\ \A t \in DOMAIN wave_done :
                    wave_done[t] = TaskOf(tasks, t).duration
    /\ pc \in {"loop", "gather", "returned"}
          => \A t \in DOMAIN actual_durations :
                 actual_durations[t] = TaskOf(tasks, t).duration
    /\ pc = "returned" => actual_runtime = wave_max_sum

(***************************************************************************)
(* C19: the wave in which a task is dispatched is 1 for a task without     *)
(* dependencies and 1 + the largest wave of its dependencies otherwise;    *)
(* when run_tasks returns every task has a wave and the number of waves is *)
(* the number of tasks on the longest dependency chain.                    *)
(***************************************************************************)
C19_WaveByGraph ==
    pc \in {"loop", "gather", "returned"}
        => /\ \A t \in DOMAIN wave_of :
                  /\ Deps(tasks, t) \subseteq DOMAIN wave_of
                  /\ wave_of[t] = 1 + Max({0} \cup {wave_of[d] : d \in Deps(tasks, t)})
           /\ pc = "returned"
                 => /\ DOMAIN wave_of = Keys(tasks)
                    /\ waves = Max({0} \cup {Len(p) : p \in Paths(tasks)})

\* A run has returned after two waves, the first of two tasks of different
\* durations.
C19_Witness ==
    /\ pc = "returned" /\ waves = 2
    /\ \E t, u \in DOMAIN wave_of :
          /\ wave_of[t] = 1 /\ wave_of[u] = 1
          /\ TaskOf(tasks, t).duration # TaskOf(tasks, u).duration

\* The descriptors C15 calls valid: a non-empty name, a non-negative duration
\* and a list of non-empty strings.
WellFormedDescriptor(d) ==
    /\ d.name.type = "str" /\ d.name.s # ""
    /\ d.duration.type \in {"int", "float"} /\ d.duration.n >= 0
    /\ d.dependencies.type = "list"
    /\ \A i \in DOMAIN d.dependencies.items :
          d.dependencies.items[i].type = "str" /\ d.dependencies.items[i].s # ""

\* The descriptors C15 calls invalid.
IllFormedDescriptor(d) ==
    \/ d.name.type # "str" \/ d.name.s = ""
    \/ d.duration.type \in {"int", "float"} /\ d.duration.n < 0
    \/ d.duration.type \in {"str", "NoneType"}
    \/ d.dependencies.type # "list"
    \/ \E i \in DOMAIN d.dependencies.items :
          d.dependencies.items[i].type # "str" \/ d.dependencies.items[i].s = ""

(***************************************************************************)
(* C15: creating a Task raises ValueError for every descriptor with an     *)
(* empty (or non-string) name, a negative (or non-numeric) duration, or a  *)
(* dependency entry that is not a non-empty string, and succeeds for every *)
(* descriptor with a non-empty name, a non-negative duration and a list of *)
(* non-empty strings.                                                      *)
(***************************************************************************)
C15_InvalidTaskRejected ==
    created.kind # "none"
        => /\ IllFormedDescriptor(descriptor) => created.kind = "ValueError"
           /\ WellFormedDescriptor(descriptor) => created.kind = "ok"
           /\ created.kind = "ok" => ~ IllFormedDescriptor(descriptor)

\* A descriptor whose only defect is a negative duration has been rejected.
C15_Witness ==
    /\ created.kind = "ValueError"
    /\ descriptor.name = StrV("A")
    /\ descriptor.duration = IntV(-1)
    /\ descriptor.dependencies = ListV(<<StrV("B")>>)

(***************************************************************************)
(* C12: parse_text yields the same ordered dependency list for a record    *)
(* written bracketed ("A, 5, [B, C]") and written bare ("A, 5, B, C"): a   *)
(* record with k >= 1 dependency names yields exactly those k names, in    *)
(* order, in either notation.                                              *)
(***************************************************************************)
C12_NotationsAgree ==
    (/\ parsed.kind # "none"
     /\ record.notation \in {"bracketed", "bare"}
     /\ FloatOk(record.duration)
     /\ Len(record.dependencies) >= 1)
        => /\ parsed.kind = "ok"
           /\ Len(parsed.tasks) = 1
           /\ parsed.tasks[1].dependencies = record.dependencies

(***************************************************************************)
(* C16: the CLI run action never emits a partial success report: a run     *)
(* that ends on the error path (a message on stderr, exit status 1) has    *)
(* printed neither "Task execution completed." nor the actual runtime, and *)
(* a run whose execution returned without failure exits with status 0,     *)
(* task lists whose expected runtime is 0 included.                        *)
(***************************************************************************)
C16_NoPartialSuccessReport ==
    /\ (exit_code = <<1>> /\ stderr # <<>>)
          => \A i \in DOMAIN stdout :
                 stdout[i].text \notin {"Task execution completed.", "Actual runtime"}
    /\ (pc = "returned" /\ exit_code # NotExited) => exit_code = <<0>>

\* The tasks the second call has dispatched and not yet joined.
OtherInFlight ==
    Range(other.ready_tasks) \cup Range(other.queue) \cup DOMAIN other.running
        \cup DOMAIN other.wave_done

(***************************************************************************)
(* C21: the completed set and the duration map are local to a run_tasks    *)
(* call.  No step of a run changes tasks, expected_end_times or            *)
(* expected_runtime; a second call, made while the first is in progress or *)
(* after it returned, starts from an empty completed set and an empty      *)
(* duration map whatever the first call has completed; no step changes the *)
(* completed set, duration map or dispatch counts of both calls; and each  *)
(* call dispatches every task exactly once: a task is dispatched at most   *)
(* once, exactly the dispatched tasks are completed or in flight, and a    *)
(* call that returned has completed and measured every task.               *)
(***************************************************************************)
C21_CallsIndependent ==
    /\ [](other.pc # "idle"
            => /\ other.pc \in {"loop", "gather", "returned"}
               /\ DOMAIN other.dispatched = Keys(tasks)
               /\ \A n \in Keys(tasks) :
                      /\ other.dispatched[n] \in {0, 1}
                      /\ other.dispatched[n] = 1
                            <=> n \in other.completed_tasks \cup OtherInFlight
               /\ DOMAIN other.actual_durations = other.completed_tasks
               /\ other.pc = "returned"
                     => /\ other.completed_tasks = Keys(tasks)
                        /\ \A n \in Keys(tasks) : other.dispatched[n] = 1)
    /\ [](pc = "returned"
            => /\ completed_tasks = Keys(tasks)
               /\ DOMAIN actual_durations = Keys(tasks)
               /\ \A n \in Keys(tasks) : dispatched[n] = 1)
    /\ [][/\ pc # "new" => UNCHANGED <<tasks, expected_end_times, expected_runtime>>
          /\ (other.pc = "idle" /\ other'.pc # "idle")
                => /\ other'.completed_tasks = {}
                   /\ other'.actual_durations = EmptyMap
                   /\ \A n \in Keys(tasks) : other'.dispatched[n] = 0
          /\ (\/ other'.completed_tasks # other.completed_tasks
              \/ other'.actual_durations # other.actual_durations
              \/ other'.dispatched # other.dispatched)
                => UNCHANGED <<completed_tasks, actual_durations, dispatched>>]_vars

\* Both calls have returned; the second one was made while the first was in
\* progress, after its start and before its end.
C21_Witness ==
    /\ pc = "returned" /\ other.pc = "returned"
    /\ Len(tasks) >= 2
    /\ start_time < other.start_time
    /\ other.start_time < start_time + actual_runtime

=============================================================================
